---- MODULE Spec2Model ----
(***************************************************************************)
(* Model of the constellation-go client (client.go, links.go): the three   *)
(* constructors, User-Agent resolution from the process environment, the   *)
(* shared makeRequest path and the five operations.                        *)
(*                                                                         *)
(* Strings that the code takes apart or puts together (parameter values,   *)
(* query strings, URLs) are sequences of one-character strings; strings    *)
(* the code only passes on or compares with "" (User-Agent, status line,   *)
(* error text) are TLA+ strings.  Durations are in whole seconds.          *)
(***************************************************************************)
EXTENDS Integers, Sequences, FiniteSets, TLC

\* ------------------------------------------------------------ bounds
\* Longest Target value the calls are tried with.
MaxStrLen == 2
\* Largest Limit the calls are tried with (its negation is tried too).
MaxLimit == 12

\* ------------------------------------------------------- program constants
DefaultBaseURL ==
    << "h","t","t","p","s",":","/","/","c","o","n","s","t","e","l","l","a","t",
       "i","o","n",".","m","i","c","r","o","c","o","s","m",".","b","l","u","e" >>
DefaultTimeout == 30
DefaultUserAgent == "constellation-go/1.0.0"
StatusOK == 200

\* ------------------------------------------------------------ characters
\* The printable ASCII characters in code order, starting at code 32.  The
\* double quote (34), the backslash (92) and the backtick (96) keep their
\* places under names.
AsciiChars ==
    << " ","!","dquote","#","$","%","&","'","(",")","*","+",",","-",".","/",
       "0","1","2","3","4","5","6","7","8","9",":",";","<","=",">","?",
       "@","A","B","C","D","E","F","G","H","I","J","K","L","M","N","O",
       "P","Q","R","S","T","U","V","W","X","Y","Z","[","backslash","]","^","_",
       "backtick","a","b","c","d","e","f","g","h","i","j","k","l","m","n","o",
       "p","q","r","s","t","u","v","w","x","y","z","{","|","}","~" >>

AsciiCode ==
    [c \in {AsciiChars[i] : i \in 1..Len(AsciiChars)} |->
        31 + (CHOOSE i \in 1..Len(AsciiChars) : AsciiChars[i] = c)]

Ascii(c) == AsciiCode[c]

Chr(n) == AsciiChars[n - 31]

IsAlnum(c) ==
    LET n == Ascii(c)
    IN  \/ (97 <= n /\ n <= 122)
        \/ (65 <= n /\ n <= 90)
        \/ (48 <= n /\ n <= 57)

\* byte-wise string comparison, as sort.Strings orders the keys
RECURSIVE StrLess(_, _)
StrLess(a, b) ==
    IF b = << >> THEN FALSE
    ELSE IF a = << >> THEN TRUE
    ELSE IF Ascii(Head(a)) # Ascii(Head(b)) THEN Ascii(Head(a)) < Ascii(Head(b))
    ELSE StrLess(Tail(a), Tail(b))

\* ------------------------------------------------------- strconv.Itoa
Digits == << "0","1","2","3","4","5","6","7","8","9" >>

RECURSIVE FormatUint(_)
FormatUint(n) ==
    IF n < 10 THEN << Digits[n + 1] >>
    ELSE FormatUint(n \div 10) \o << Digits[(n % 10) + 1] >>

Itoa(n) == IF n < 0 THEN << "-" >> \o FormatUint(0 - n) ELSE FormatUint(n)

\* ------------------------------------------------------- url.QueryEscape
HexDigits == << "0","1","2","3","4","5","6","7","8","9","A","B","C","D","E","F" >>

\* shouldEscape(c, encodeQueryComponent)
ShouldEscape(c) ==
    IF IsAlnum(c) THEN FALSE
    ELSE IF c \in {"-", "_", ".", "~"} THEN FALSE
    ELSE TRUE

EscapeChar(c) ==
    IF ~ShouldEscape(c) THEN << c >>
    ELSE IF c = " " THEN << "+" >>
    ELSE << "%", HexDigits[(Ascii(c) \div 16) + 1], HexDigits[(Ascii(c) % 16) + 1] >>

RECURSIVE QueryEscape(_)
QueryEscape(s) ==
    IF s = << >> THEN << >>
    ELSE EscapeChar(Head(s)) \o QueryEscape(Tail(s))

\* ------------------------------------------------------- url.Values
\* url.Values is map[string][]string: a function from the keys present to
\* the sequence of values added under each.
EmptyValues == [k \in {} |-> << >>]

Add(v, key, val) ==
    IF key \in DOMAIN v
    THEN [v EXCEPT ![key] = Append(@, val)]
    ELSE [k \in DOMAIN v \cup {key} |-> IF k = key THEN << val >> ELSE v[k]]

MinKey(ks) == CHOOSE k \in ks : \A j \in ks \ {k} : StrLess(k, j)

RECURSIVE SortedKeys(_)
SortedKeys(ks) ==
    IF ks = {} THEN << >>
    ELSE LET m == MinKey(ks) IN << m >> \o SortedKeys(ks \ {m})

RECURSIVE EncodeKey(_, _)
\* the pairs key=value of one key, each preceded by "&"
EncodeKey(key, vals) ==
    IF vals = << >> THEN << >>
    ELSE << "&" >> \o QueryEscape(key) \o << "=" >> \o QueryEscape(Head(vals))
         \o EncodeKey(key, Tail(vals))

RECURSIVE EncodeKeys(_, _)
EncodeKeys(v, keys) ==
    IF keys = << >> THEN << >>
    ELSE EncodeKey(Head(keys), v[Head(keys)]) \o EncodeKeys(v, Tail(keys))

\* Values.Encode: "key=value" pairs joined by "&", sorted by key
Encode(v) ==
    LET s == EncodeKeys(v, SortedKeys(DOMAIN v))
    IN  IF s = << >> THEN << >> ELSE Tail(s)

\* ------------------------------------------------------- inputs tried
\* Target values: the beginnings of an at:// URI up to MaxStrLen characters
\* (the empty string is the missing target).
SampleTarget == << "a", ":", "/", "/", "d" >>
Targets == {SubSeq(SampleTarget, 1, n) : n \in 0..MaxStrLen}
Collections == {<< >>, << "a", ".", "b" >>}
Paths == {<< >>, << ".", "u" >>}
Cursors == {<< >>, << "x", " ", "&", "=", "?" >>}
Limits == {0 - MaxLimit, 0, MaxLimit}

\* LinksParams
LinksParamsSet ==
    [Target : Targets, Collection : Collections, Path : Paths,
     Limit : Limits, Cursor : Cursors]

CustomBaseURL == << "h","t","t","p",":","/","/","h" >>
\* a base URL url.Parse rejects (missing protocol scheme)
BadBaseURL == << ":", "b" >>
BaseURLs == {CustomBaseURL, BadBaseURL}
Timeouts == {0 - 1, 0, 2 * DefaultTimeout}
\* values of CONSTELLATION_USER_AGENT, and of the userAgent argument
EnvValues == {"", "my-custom-app/2.0.0"}
UserAgentArgs == {"", "override-user-agent/3.0.0"}

\* what the server may answer: status code with its status line, and a body
Responses ==
    { [StatusCode |-> 200, Status |-> "200 OK"],
      [StatusCode |-> 201, Status |-> "201 Created"],
      [StatusCode |-> 300, Status |-> "300 Multiple Choices"],
      [StatusCode |-> 404, Status |-> "404 Not Found"] }
\* a body is a JSON object with a total, or something the decoder rejects
Bodies ==
    { [json |-> TRUE, total |-> 0], [json |-> TRUE, total |-> 12],
      [json |-> FALSE, total |-> 0] }
\* why the transport may fail without a response
TransportErrors == {"connection refused"}

\* ------------------------------------------------------------ state
VARIABLES
    env,     \* the process environment's CONSTELLATION_USER_AGENT
    client,  \* the Client, once constructed (a sequence of zero or one record)
    built,   \* which constructor made it, with its arguments and the environment then
    calls    \* per caller: the operation call in progress or just returned

vars == << env, client, built, calls >>

None == << >>
Some(x) == << x >>

NilResult == [kind |-> "nil", total |-> 0]
IntResult(n) == [kind |-> "int", total |-> n]
PtrResult(n) == [kind |-> "ptr", total |-> n]

IdleCall ==
    [ pc      |-> "idle",   \* idle, inflight (in HTTPClient.Do), decoding, done
      op      |-> "none",
      params  |-> None,
      req     |-> None,     \* the request handed to the transport
      sends   |-> 0,        \* times the transport was invoked in this call
      resp    |-> None,     \* the response the transport returned
      closes  |-> 0,        \* times resp.Body.Close ran
      fed     |-> FALSE,    \* whether the body was given to the JSON decoder
      body    |-> None,     \* the body the decoder read to its end
      result  |-> NilResult,
      err     |-> None,     \* the error's message, in pieces; None is nil
      cause   |-> "none" ]  \* what happened: validation, create, transport,
                            \* timeout, status, decode, ok

\* ------------------------------------------------------- environment
\* os.Getenv(EnvUserAgent): "" when the variable is not set
Getenv == IF env.set THEN env.val ELSE ""

Setenv(v) ==
    /\ env' = [set |-> TRUE, val |-> v]
    /\ UNCHANGED << client, built, calls >>

Unsetenv ==
    /\ env' = [set |-> FALSE, val |-> ""]
    /\ UNCHANGED << client, built, calls >>

\* ------------------------------------------------------- construction
getUserAgentTakesEmpty == IF env.set THEN env.val ELSE DefaultUserAgent

getUserAgent == IF Getenv # "" THEN Getenv ELSE DefaultUserAgent

Built(ctor, u, t, a) ==
    [ctor |-> ctor, baseURL |-> u, timeout |-> t, userAgent |-> a, env |-> env]

NewClient ==
    /\ client = None
    /\ client' = Some([ BaseURL    |-> DefaultBaseURL,
                        UserAgent  |-> getUserAgent,
                        HTTPClient |-> [Timeout |-> DefaultTimeout] ])
    /\ built' = Some(Built("NewClient", << >>, 0, ""))
    /\ UNCHANGED << env, calls >>

NewClientWithConfigDefaultsTimeout(baseURL, timeout) ==
    /\ client = None
    /\ client' = Some([ BaseURL    |-> baseURL,
                        UserAgent  |-> getUserAgent,
                        HTTPClient |-> [Timeout |-> IF timeout > 0 THEN timeout
                                                    ELSE DefaultTimeout] ])
    /\ built' = Some(Built("NewClientWithConfig", baseURL, timeout, ""))
    /\ UNCHANGED << env, calls >>

NewClientWithConfig(baseURL, timeout) ==
    /\ client = None
    /\ client' = Some([ BaseURL    |-> baseURL,
                        UserAgent  |-> getUserAgent,
                        HTTPClient |-> [Timeout |-> timeout] ])
    /\ built' = Some(Built("NewClientWithConfig", baseURL, timeout, ""))
    /\ UNCHANGED << env, calls >>

NewClientWithUserAgent(userAgent) ==
    /\ client = None
    /\ client' = Some([ BaseURL    |-> DefaultBaseURL,
                        UserAgent  |-> userAgent,
                        HTTPClient |-> [Timeout |-> DefaultTimeout] ])
    /\ built' = Some(Built("NewClientWithUserAgent", << >>, 0, userAgent))
    /\ UNCHANGED << env, calls >>

\* ------------------------------------------------------- query parameters
KeyTarget == << "t","a","r","g","e","t" >>
KeyCollection == << "c","o","l","l","e","c","t","i","o","n" >>
KeyPath == << "p","a","t","h" >>
KeyLimit == << "l","i","m","i","t" >>
KeyCursor == << "c","u","r","s","o","r" >>

TargetMissingNever(params) == FALSE

\* if params.Target == ""
TargetMissing(params) == params.Target = << >>

LimitGivenNonNegative(params) == params.Limit >= 0

\* if params.Limit > 0
LimitGiven(params) == params.Limit > 0

AddIf(cond, v, key, val) == IF cond THEN Add(v, key, val) ELSE v

\* target, collection and path: what all four links operations send
FilterValues(params) ==
    LET v1 == Add(EmptyValues, KeyTarget, params.Target)
        v2 == AddIf(params.Collection # << >>, v1, KeyCollection, params.Collection)
    IN  AddIf(params.Path # << >>, v2, KeyPath, params.Path)

\* ... and limit and cursor: what the paged operations add
PagedValues(params) ==
    LET v3 == AddIf(LimitGiven(params), FilterValues(params), KeyLimit, Itoa(params.Limit))
    IN  AddIf(params.Cursor # << >>, v3, KeyCursor, params.Cursor)

GetLinksValues(params) == PagedValues(params)

GetLinksCountValuesPaged(params) == PagedValues(params)

GetLinksCountValues(params) == FilterValues(params)

GetDistinctDIDsValues(params) == PagedValues(params)

GetDistinctDIDsCountValues(params) == PagedValues(params)

\* ------------------------------------------------------- endpoints
PathRoot == << "/" >>
PathLinks == << "/","l","i","n","k","s" >>
PathLinksCount == PathLinks \o << "/","c","o","u","n","t" >>
PathDistinctDIDs == PathLinks \o << "/","d","i","s","t","i","n","c","t","-","d","i","d","s" >>
PathDistinctDIDsCount == PathLinksCount \o << "/","d","i","s","t","i","n","c","t","-","d","i","d","s" >>

LinksOps == {"GetLinks", "GetLinksCount", "GetDistinctDIDs", "GetDistinctDIDsCount"}
Ops == {"GetAPIInfo"} \cup LinksOps

DecodeMessageCopied(op) == "failed to make request: "

\* the text of each operation's decode error
DecodeMessage(op) ==
    CASE op = "GetAPIInfo"           -> "failed to decode response: "
      [] op = "GetLinks"             -> "failed to decode links response: "
      [] op = "GetLinksCount"        -> "failed to decode count response: "
      [] op = "GetDistinctDIDs"      -> "failed to decode distinct DIDs response: "
      [] op = "GetDistinctDIDsCount" -> "failed to decode distinct DIDs response: "

FailResultZero(op) == IF op = "GetDistinctDIDsCount" THEN IntResult(0) ELSE NilResult

\* what each operation returns beside an error
FailResult(op) == IF op = "GetDistinctDIDsCount" THEN IntResult(0 - 1) ELSE NilResult

\* what each operation returns from a decoded body
OkResult(op, body) ==
    IF op = "GetDistinctDIDsCount" THEN IntResult(body.total) ELSE PtrResult(body.total)

\* ------------------------------------------------------- makeRequest
FullURLAlwaysQuery(baseURL, endpoint, params) ==
    baseURL \o endpoint \o << "?" >> \o Encode(params)

\* fullURL: base, endpoint, and "?" with the encoded query if len(params) > 0
FullURL(baseURL, endpoint, params) ==
    IF Cardinality(DOMAIN params) > 0
    THEN baseURL \o endpoint \o << "?" >> \o Encode(params)
    ELSE baseURL \o endpoint

\* http.NewRequest parses the URL: a URL that starts with ":" has no
\* protocol scheme and is refused
URLParses(u) == ~(u # << >> /\ Head(u) = ":")

StatusFailsOnlyErrors(code) == code >= 400

\* if resp.StatusCode != http.StatusOK
StatusFails(code) == code # StatusOK

HasDeadlineOnlyDefault(timeout) == timeout = DefaultTimeout

\* http.Client sets a deadline for the request only when Timeout > 0
HasDeadline(timeout) == timeout > 0

Returned(call, result, err, cause) ==
    [call EXCEPT !.pc = "done", !.result = result, !.err = err, !.cause = cause]

\* the User-Agent looked up again for each request
SendReadsEnv(c, call, endpoint, params) ==
    LET fullURL == FullURL(c.BaseURL, endpoint, params)
    IN  IF ~URLParses(fullURL)
        THEN Returned(call, FailResult(call.op),
                      << "failed to create request: ", "missing protocol scheme" >>,
                      "create")
        ELSE [call EXCEPT
                !.pc = "inflight",
                !.req = Some([ Method |-> "GET",
                               URL    |-> fullURL,
                               Header |-> [ Accept    |-> "application/json",
                                            UserAgent |-> getUserAgent ] ]),
                !.sends = @ + 1]

\* makeRequest up to c.HTTPClient.Do(req)
Send(c, call, endpoint, params) ==
    LET fullURL == FullURL(c.BaseURL, endpoint, params)
    IN  IF ~URLParses(fullURL)
        THEN Returned(call, FailResult(call.op),
                      << "failed to create request: ", "missing protocol scheme" >>,
                      "create")
        ELSE [call EXCEPT
                !.pc = "inflight",
                !.req = Some([ Method |-> "GET",
                               URL    |-> fullURL,
                               Header |-> [ Accept    |-> "application/json",
                                            UserAgent |-> c.UserAgent ] ]),
                !.sends = @ + 1]

Invoke(op, params) == [IdleCall EXCEPT !.op = op, !.params = params]

CanCall(k) == client # None /\ calls[k].pc = "idle"

ValidationError == << "target parameter is required" >>

\* a links operation: validate, build the query, send
LinksCall(k, op, params, endpoint, values) ==
    /\ CanCall(k)
    /\ calls' = [calls EXCEPT ![k] =
                    IF TargetMissing(params)
                    THEN Returned(Invoke(op, Some(params)), FailResult(op),
                                  ValidationError, "validation")
                    ELSE Send(client[1], Invoke(op, Some(params)), endpoint, values)]
    /\ UNCHANGED << env, client, built >>

\* ------------------------------------------------------- operations
GetAPIInfo(k) ==
    /\ CanCall(k)
    /\ calls' = [calls EXCEPT ![k] =
                    Send(client[1], Invoke("GetAPIInfo", None), PathRoot, EmptyValues)]
    /\ UNCHANGED << env, client, built >>

GetLinks(k, params) ==
    LinksCall(k, "GetLinks", params, PathLinks, GetLinksValues(params))

GetLinksCount(k, params) ==
    LinksCall(k, "GetLinksCount", params, PathLinksCount, GetLinksCountValues(params))

GetDistinctDIDs(k, params) ==
    LinksCall(k, "GetDistinctDIDs", params, PathDistinctDIDs, GetDistinctDIDsValues(params))

GetDistinctDIDsCount(k, params) ==
    LinksCall(k, "GetDistinctDIDsCount", params, PathDistinctDIDsCount,
              GetDistinctDIDsCountValues(params))

\* ------------------------------------------------------- the transport answers
DoReturnsResponseLeaksBody(k, r) ==
    /\ calls[k].pc = "inflight"
    /\ calls' = [calls EXCEPT ![k] =
                    IF StatusFails(r.StatusCode)
                    THEN Returned([@ EXCEPT !.resp = Some(r)],
                                  FailResult(@.op),
                                  << "API request failed with status: ", r.Status >>,
                                  "status")
                    ELSE [@ EXCEPT !.pc = "decoding", !.resp = Some(r), !.fed = TRUE]]
    /\ UNCHANGED << env, client, built >>

\* one response slot shared by the calls in flight
DoReturnsResponseToAll(k, r) ==
    /\ calls[k].pc = "inflight"
    /\ calls' = [j \in DOMAIN calls |->
                    IF calls[j].pc # "inflight" THEN calls[j]
                    ELSE IF StatusFails(r.StatusCode)
                    THEN Returned([calls[j] EXCEPT !.resp = Some(r), !.closes = @ + 1],
                                  FailResult(calls[j].op),
                                  << "API request failed with status: ", r.Status >>,
                                  "status")
                    ELSE [calls[j] EXCEPT !.pc = "decoding", !.resp = Some(r),
                                          !.fed = TRUE]]
    /\ UNCHANGED << env, client, built >>

\* c.HTTPClient.Do returns a response: makeRequest checks the status, closes
\* the body and fails, or hands the response to the operation's decoder
DoReturnsResponse(k, r) ==
    /\ calls[k].pc = "inflight"
    /\ calls' = [calls EXCEPT ![k] =
                    IF StatusFails(r.StatusCode)
                    THEN Returned([@ EXCEPT !.resp = Some(r), !.closes = @ + 1],
                                  FailResult(@.op),
                                  << "API request failed with status: ", r.Status >>,
                                  "status")
                    ELSE [@ EXCEPT !.pc = "decoding", !.resp = Some(r), !.fed = TRUE]]
    /\ UNCHANGED << env, client, built >>

DoReturnsErrorRetriesOnce(k, e) ==
    /\ calls[k].pc = "inflight"
    /\ calls' = [calls EXCEPT ![k] =
                    IF @.sends < 2
                    THEN [@ EXCEPT !.sends = @ + 1]
                    ELSE Returned(@, FailResult(@.op),
                                  << "failed to make request: ", e >>, "transport")]
    /\ UNCHANGED << env, client, built >>

\* c.HTTPClient.Do returns an error
DoReturnsError(k, e) ==
    /\ calls[k].pc = "inflight"
    /\ calls' = [calls EXCEPT ![k] =
                    Returned(@, FailResult(@.op), << "failed to make request: ", e >>,
                             "transport")]
    /\ UNCHANGED << env, client, built >>

DoTimesOutResetsTimeout(k) ==
    /\ calls[k].pc = "inflight"
    /\ HasDeadline(client[1].HTTPClient.Timeout)
    /\ calls' = [calls EXCEPT ![k] =
                    Returned(@, FailResult(@.op),
                             << "failed to make request: ", "Client.Timeout exceeded" >>,
                             "timeout")]
    /\ client' = Some([client[1] EXCEPT !.HTTPClient.Timeout = DefaultTimeout])
    /\ UNCHANGED << env, built >>

\* the client's deadline passes while Do waits for the response
DoTimesOut(k) ==
    /\ calls[k].pc = "inflight"
    /\ HasDeadline(client[1].HTTPClient.Timeout)
    /\ calls' = [calls EXCEPT ![k] =
                    Returned(@, FailResult(@.op),
                             << "failed to make request: ", "Client.Timeout exceeded" >>,
                             "timeout")]
    /\ UNCHANGED << env, client, built >>

\* json.NewDecoder(resp.Body).Decode returns; the deferred Close runs
DecodeReturns(k, body) ==
    /\ calls[k].pc = "decoding"
    /\ calls' = [calls EXCEPT ![k] =
                    IF body.json
                    THEN Returned([@ EXCEPT !.closes = @ + 1, !.body = Some(body)],
                                  OkResult(@.op, body), None, "ok")
                    ELSE Returned([@ EXCEPT !.closes = @ + 1, !.body = Some(body)],
                                  FailResult(@.op),
                                  << DecodeMessage(@.op), "invalid character" >>,
                                  "decode")]
    /\ UNCHANGED << env, client, built >>

\* the client's deadline passes while the decoder reads the body
BodyTimesOut(k) ==
    /\ calls[k].pc = "decoding"
    /\ HasDeadline(client[1].HTTPClient.Timeout)
    /\ calls' = [calls EXCEPT ![k] =
                    Returned([@ EXCEPT !.closes = @ + 1], FailResult(@.op),
                             << DecodeMessage(@.op), "Client.Timeout exceeded" >>,
                             "bodyread")]
    /\ UNCHANGED << env, client, built >>

\* the caller has the operation's results: the call is over
CallReturns(k) ==
    /\ calls[k].pc = "done"
    /\ calls' = [calls EXCEPT ![k] = IdleCall]
    /\ UNCHANGED << env, client, built >>

\* ------------------------------------------------------- specification
Callers == {1}

Init ==
    /\ env \in {[set |-> FALSE, val |-> ""]} \cup {[set |-> TRUE, val |-> v] : v \in EnvValues}
    /\ client = None
    /\ built = None
    /\ calls = [k \in Callers |-> IdleCall]

Next ==
    \/ \E v \in EnvValues : Setenv(v)
    \/ Unsetenv
    \/ NewClient
    \/ \E u \in BaseURLs, t \in Timeouts : NewClientWithConfig(u, t)
    \/ \E a \in UserAgentArgs : NewClientWithUserAgent(a)
    \/ \E k \in DOMAIN calls : GetAPIInfo(k)
    \/ \E k \in DOMAIN calls, p \in LinksParamsSet : GetLinks(k, p)
    \/ \E k \in DOMAIN calls, p \in LinksParamsSet : GetLinksCount(k, p)
    \/ \E k \in DOMAIN calls, p \in LinksParamsSet : GetDistinctDIDs(k, p)
    \/ \E k \in DOMAIN calls, p \in LinksParamsSet : GetDistinctDIDsCount(k, p)
    \/ \E k \in DOMAIN calls, r \in Responses : DoReturnsResponse(k, r)
    \/ \E k \in DOMAIN calls, e \in TransportErrors : DoReturnsError(k, e)
    \/ \E k \in DOMAIN calls : DoTimesOut(k)
    \/ \E k \in DOMAIN calls, b \in Bodies : DecodeReturns(k, b)
    \/ \E k \in DOMAIN calls : BodyTimesOut(k)
    \/ \E k \in DOMAIN calls : CallReturns(k)

Spec == Init /\ [][Next]_vars

\* The deadline of a client whose Timeout is positive does pass: the timer
\* fires while the call still waits.  Nothing obliges the server to answer.
Fairness ==
    \A k \in Callers : WF_vars(DoTimesOut(k)) /\ WF_vars(BodyTimesOut(k))

FairSpec == Init /\ [][Next]_vars /\ Fairness

\* ------------------------------------------------------- two callers, one client
\* Two goroutines call the operations of one client, made by NewClient with
\* the variable not set, at the same time.
ConcCallers == {1, 2}
ConcParams ==
    [Target : {<< >>, SubSeq(SampleTarget, 1, MaxStrLen)}, Collection : Collections,
     Path : {<< >>}, Limit : {0, MaxLimit}, Cursor : {<< >>}]

ConcInit ==
    /\ env = [set |-> FALSE, val |-> ""]
    /\ client = Some([ BaseURL    |-> DefaultBaseURL,
                       UserAgent  |-> getUserAgent,
                       HTTPClient |-> [Timeout |-> DefaultTimeout] ])
    /\ built = Some(Built("NewClient", << >>, 0, ""))
    /\ calls = [k \in ConcCallers |-> IdleCall]

ConcNext ==
    \/ \E k \in DOMAIN calls : GetAPIInfo(k)
    \/ \E k \in DOMAIN calls, p \in ConcParams : GetLinks(k, p)
    \/ \E k \in DOMAIN calls, p \in ConcParams : GetLinksCount(k, p)
    \/ \E k \in DOMAIN calls, p \in ConcParams : GetDistinctDIDs(k, p)
    \/ \E k \in DOMAIN calls, p \in ConcParams : GetDistinctDIDsCount(k, p)
    \/ \E k \in DOMAIN calls, r \in Responses : DoReturnsResponse(k, r)
    \/ \E k \in DOMAIN calls, e \in TransportErrors : DoReturnsError(k, e)
    \/ \E k \in DOMAIN calls : DoTimesOut(k)
    \/ \E k \in DOMAIN calls, b \in Bodies : DecodeReturns(k, b)
    \/ \E k \in DOMAIN calls : BodyTimesOut(k)
    \/ \E k \in DOMAIN calls : CallReturns(k)

ConcSpec == ConcInit /\ [][ConcNext]_vars

\* ------------------------------------------------------- reading a request back
\* What a server reads from the URL it is sent: the query after "?", split
\* at "&" and "=", each part unescaped.
IndexOf(s, c) ==
    IF \E i \in 1..Len(s) : s[i] = c
    THEN CHOOSE i \in 1..Len(s) : s[i] = c /\ \A j \in 1..(i - 1) : s[j] # c
    ELSE 0

StartsWith(s, prefix) ==
    Len(s) >= Len(prefix) /\ SubSeq(s, 1, Len(prefix)) = prefix

After(s, n) == SubSeq(s, n + 1, Len(s))

RECURSIVE Split(_, _)
Split(s, c) ==
    LET i == IndexOf(s, c)
    IN  IF i = 0 THEN << s >>
        ELSE << SubSeq(s, 1, i - 1) >> \o Split(After(s, i), c)

HexVal(c) == (CHOOSE i \in 1..16 : HexDigits[i] = c) - 1

RECURSIVE Unescape(_)
Unescape(s) ==
    IF s = << >> THEN << >>
    ELSE IF Head(s) = "+" THEN << " " >> \o Unescape(Tail(s))
    ELSE IF Head(s) = "%" THEN << Chr(16 * HexVal(s[2]) + HexVal(s[3])) >> \o Unescape(After(s, 3))
    ELSE << Head(s) >> \o Unescape(Tail(s))

ParsePair(seg) ==
    LET i == IndexOf(seg, "=")
    IN  IF i = 0 THEN << Unescape(seg), << >> >>
        ELSE << Unescape(SubSeq(seg, 1, i - 1)), Unescape(After(seg, i)) >>

\* the key/value pairs of a query string, in the order sent
ParseQuery(q) ==
    IF q = << >> THEN << >>
    ELSE LET segs == Split(q, "&") IN [i \in 1..Len(segs) |-> ParsePair(segs[i])]

\* the query string of a URL: what follows its first "?"
QueryOf(url) ==
    LET i == IndexOf(url, "?") IN IF i = 0 THEN << >> ELSE After(url, i)

HasQueryMark(url) == IndexOf(url, "?") # 0

KeysOf(pairs) == {pairs[i][1] : i \in 1..Len(pairs)}

\* the value sent under a key that is sent exactly once
ValueOf(pairs, key) == pairs[CHOOSE i \in 1..Len(pairs) : pairs[i][1] = key][2]

IsDigit(c) == \E i \in 1..10 : Digits[i] = c
DigitVal(c) == (CHOOSE i \in 1..10 : Digits[i] = c) - 1

RECURSIVE ParseUint(_, _)
ParseUint(s, acc) ==
    IF s = << >> THEN acc ELSE ParseUint(Tail(s), 10 * acc + DigitVal(Head(s)))

IsDecimal(s) == s # << >> /\ \A i \in 1..Len(s) : IsDigit(s[i])

\* the calls that are under way or have just returned
Active == {k \in DOMAIN calls : calls[k].pc # "idle"}
Sent == {k \in Active : calls[k].req # None}
P(k) == calls[k].params[1]
Req(k) == calls[k].req[1]
Resp(k) == calls[k].resp[1]

\* ------------------------------------------------------- claims
\* C1: a links operation called with an empty Target returns the error
\* "target parameter is required" and never invokes the HTTP transport,
\* whatever the other fields are.
C1_EmptyTargetFailsWithoutNetwork ==
    \A k \in Active :
        (calls[k].op \in LinksOps /\ P(k).Target = << >>) =>
            /\ calls[k].pc = "done"
            /\ calls[k].err = << "target parameter is required" >>
            /\ calls[k].sends = 0
            /\ calls[k].req = None

C1_Witness ==
    \E k \in Active :
        /\ calls[k].op = "GetDistinctDIDsCount"
        /\ P(k).Target = << >>
        /\ P(k).Collection # << >>
        /\ P(k).Limit > 0
        /\ calls[k].pc = "done"
        /\ calls[k].sends = 0

\* the keys a paged operation is to send for its parameters
PagedKeys(params) ==
    {KeyTarget}
    \cup (IF params.Collection # << >> THEN {KeyCollection} ELSE {})
    \cup (IF params.Path # << >> THEN {KeyPath} ELSE {})
    \cup (IF params.Cursor # << >> THEN {KeyCursor} ELSE {})
    \cup (IF params.Limit > 0 THEN {KeyLimit} ELSE {})

\* C2: the query GetLinks, GetDistinctDIDs and GetDistinctDIDsCount send holds
\* target with the given value, collection, path and cursor exactly when the
\* field is non-empty, limit exactly when Limit > 0, each once and with the
\* field's value, and nothing else; limit is decimal and reads back as Limit.
C2_QueryHoldsExactlyTheGivenParameters ==
    \A k \in Sent :
        calls[k].op \in {"GetLinks", "GetDistinctDIDs", "GetDistinctDIDsCount"} =>
            LET q == ParseQuery(QueryOf(Req(k).URL))
            IN  /\ KeysOf(q) = PagedKeys(P(k))
                /\ Len(q) = Cardinality(PagedKeys(P(k)))
                /\ ValueOf(q, KeyTarget) = P(k).Target
                /\ P(k).Collection # << >> => ValueOf(q, KeyCollection) = P(k).Collection
                /\ P(k).Path # << >> => ValueOf(q, KeyPath) = P(k).Path
                /\ P(k).Cursor # << >> => ValueOf(q, KeyCursor) = P(k).Cursor
                /\ P(k).Limit > 0 =>
                      /\ IsDecimal(ValueOf(q, KeyLimit))
                      /\ ParseUint(ValueOf(q, KeyLimit), 0) = P(k).Limit

C2_Witness ==
    \E k \in Sent :
        /\ calls[k].op = "GetDistinctDIDsCount"
        /\ P(k).Limit >= 10
        /\ P(k).Cursor # << >>
        /\ P(k).Collection = << >>
        /\ P(k).Path # << >>
        /\ Len(ParseQuery(QueryOf(Req(k).URL))) = 4

C2_WitnessLimitOmitted ==
    \E k \in Sent :
        /\ calls[k].op = "GetLinks"
        /\ P(k).Limit < 0
        /\ KeyLimit \notin KeysOf(ParseQuery(QueryOf(Req(k).URL)))

\* the query GetLinksCount is to send: collection, path, target, in key order
QuerySep(q) == IF q = << >> THEN << >> ELSE q \o << "&" >>
CountQuery(params) ==
    LET c == IF params.Collection # << >>
             THEN KeyCollection \o << "=" >> \o QueryEscape(params.Collection)
             ELSE << >>
        cp == IF params.Path # << >>
              THEN QuerySep(c) \o KeyPath \o << "=" >> \o QueryEscape(params.Path)
              ELSE c
    IN  QuerySep(cp) \o KeyTarget \o << "=" >> \o QueryEscape(params.Target)

\* C3: the request of GetLinksCount never holds limit or cursor, and its URL is
\* fixed by the base URL, Target, Collection and Path alone: calls that differ
\* only in Limit and Cursor send the same URL.
C3_CountIgnoresLimitAndCursor ==
    \A k \in Sent :
        calls[k].op = "GetLinksCount" =>
            LET q == ParseQuery(QueryOf(Req(k).URL))
            IN  /\ KeyLimit \notin KeysOf(q)
                /\ KeyCursor \notin KeysOf(q)
                /\ Req(k).URL = client[1].BaseURL \o PathLinksCount \o << "?" >>
                                   \o CountQuery(P(k))

C3_Witness ==
    \E k \in Sent :
        /\ calls[k].op = "GetLinksCount"
        /\ P(k).Limit > 0
        /\ P(k).Cursor # << >>
        /\ P(k).Collection # << >>
        /\ KeysOf(ParseQuery(QueryOf(Req(k).URL))) = {KeyTarget, KeyCollection}

\* the client was made by a constructor that takes no User-Agent
BuiltWithoutOverride ==
    built # None /\ built[1].ctor \in {"NewClient", "NewClientWithConfig"}

\* C4 as claimed: without an override the UserAgent is the variable's value
\* whenever the variable is set, and the default when it is not set.
C4_AsClaimed ==
    BuiltWithoutOverride =>
        /\ built[1].env.set => client[1].UserAgent = built[1].env.val
        /\ ~built[1].env.set => client[1].UserAgent = "constellation-go/1.0.0"

\* C4: without an override the UserAgent is the variable's value when the
\* variable is set to a non-empty string, and the default
\* "constellation-go/1.0.0" when it is not set or set to the empty string.
C4_UserAgentFromNonEmptyEnv ==
    BuiltWithoutOverride =>
        /\ (built[1].env.set /\ built[1].env.val # "") =>
               client[1].UserAgent = built[1].env.val
        /\ (~built[1].env.set \/ built[1].env.val = "") =>
               client[1].UserAgent = "constellation-go/1.0.0"

C4_Witness ==
    /\ built # None
    /\ built[1].ctor = "NewClientWithConfig"
    /\ built[1].env.set
    /\ built[1].env.val = "my-custom-app/2.0.0"
    /\ client[1].UserAgent = "my-custom-app/2.0.0"

C4_WitnessEmptyEnv ==
    /\ built # None
    /\ built[1].ctor = "NewClient"
    /\ built[1].env.set
    /\ built[1].env.val = ""
    /\ client[1].UserAgent = "constellation-go/1.0.0"

\* C5: NewClient gives DefaultBaseURL and 30 seconds; NewClientWithConfig(u, t)
\* gives exactly u and t; NewClientWithUserAgent(a) gives DefaultBaseURL, 30
\* seconds and exactly a, whatever the environment holds.
C5_ConstructorsYieldTheirConfiguration ==
    built # None =>
        /\ built[1].ctor = "NewClient" =>
              /\ client[1].BaseURL = DefaultBaseURL
              /\ client[1].HTTPClient.Timeout = 30
        /\ built[1].ctor = "NewClientWithConfig" =>
              /\ client[1].BaseURL = built[1].baseURL
              /\ client[1].HTTPClient.Timeout = built[1].timeout
        /\ built[1].ctor = "NewClientWithUserAgent" =>
              /\ client[1].BaseURL = DefaultBaseURL
              /\ client[1].HTTPClient.Timeout = 30
              /\ client[1].UserAgent = built[1].userAgent

C5_Witness ==
    /\ built # None
    /\ built[1].ctor = "NewClientWithUserAgent"
    /\ built[1].userAgent = ""
    /\ built[1].env.set
    /\ built[1].env.val # ""
    /\ client[1].UserAgent = ""

C5_WitnessConfig ==
    /\ built # None
    /\ built[1].ctor = "NewClientWithConfig"
    /\ built[1].timeout <= 0
    /\ client[1].HTTPClient.Timeout = built[1].timeout

Answered == {k \in Active : calls[k].resp # None}
Is2xx(code) == 200 <= code /\ code <= 299

\* C6: a response whose status is outside 2xx makes the operation return an
\* error "API request failed with status: " followed by the status line, and
\* its body is never given to the JSON decoder.
C6_Non2xxFailsWithStatus ==
    \A k \in Answered :
        ~Is2xx(Resp(k).StatusCode) =>
            /\ calls[k].pc = "done"
            /\ calls[k].err = << "API request failed with status: ", Resp(k).Status >>
            /\ ~calls[k].fed

C6_Witness ==
    \E k \in Answered :
        /\ Resp(k).StatusCode = 300
        /\ calls[k].op = "GetLinksCount"
        /\ calls[k].err = << "API request failed with status: ", "300 Multiple Choices" >>

\* C7 as claimed: a response is refused with the status error exactly when its
\* status is outside 2xx; every 2xx response reaches the decode step.
C7_AsClaimed ==
    \A k \in Answered :
        /\ (calls[k].cause = "status") <=> ~Is2xx(Resp(k).StatusCode)
        /\ Is2xx(Resp(k).StatusCode) => calls[k].fed

\* C8 as claimed: every call that waits for the server returns in the end,
\* whatever the configured timeout.
C8_AsClaimed ==
    \A k \in Callers :
        (calls[k].pc \in {"inflight", "decoding"}) ~> (calls[k].pc = "done")

\* a call given up at the deadline while waiting for the response returns the
\* transport error
TimeoutIsTransportError ==
    \A k \in Active :
        calls[k].cause = "timeout" =>
            /\ calls[k].pc = "done"
            /\ client[1].HTTPClient.Timeout > 0
            /\ calls[k].resp = None
            /\ calls[k].err[1] = "failed to make request: "

\* C8: on a client whose configured timeout is positive every call that waits
\* for the server returns in the end, and a call given up while it waits for
\* the response returns the transport error (a zero or negative timeout sets
\* no deadline).
C8_PositiveTimeoutBoundsTheCall ==
    /\ \A k \in Callers :
          (calls[k].pc \in {"inflight", "decoding"} /\ client[1].HTTPClient.Timeout > 0)
              ~> (calls[k].pc = "done")
    /\ []TimeoutIsTransportError

C8_Witness ==
    \E k \in Active :
        /\ calls[k].cause = "timeout"
        /\ client[1].HTTPClient.Timeout > 0
        /\ calls[k].pc = "done"
        /\ calls[k].err[1] = "failed to make request: "

DecodePrefixes ==
    { "failed to decode response: ", "failed to decode links response: ",
      "failed to decode count response: ", "failed to decode distinct DIDs response: " }

\* the kind of failure an error message tells its reader
MessageKind(err) ==
    IF err = None THEN "success"
    ELSE IF err = << "target parameter is required" >> THEN "validation"
    ELSE IF err[1] = "failed to make request: " THEN "transport"
    ELSE IF err[1] = "API request failed with status: " THEN "status"
    ELSE IF err[1] \in DecodePrefixes THEN "decode"
    ELSE "other"

Done == {k \in Active : calls[k].pc = "done"}

\* C9: a call that failed validation returns exactly "target parameter is
\* required"; one whose transport returned an error (a timeout included) a
\* message that begins "failed to make request"; one answered with a status
\* outside 2xx a message that begins "API request failed with status"; one
\* whose decoder returned an error a message that begins "failed to decode".
\* No failure carries the message of another kind or returns a nil error.
C9_ErrorKindsAreTold ==
    \A k \in Done :
        /\ (calls[k].op \in LinksOps /\ P(k).Target = << >>) =>
               MessageKind(calls[k].err) = "validation"
        /\ calls[k].cause \in {"transport", "timeout"} =>
               MessageKind(calls[k].err) = "transport"
        /\ (calls[k].resp # None /\ ~Is2xx(Resp(k).StatusCode)) =>
               MessageKind(calls[k].err) = "status"
        /\ calls[k].cause \in {"decode", "bodyread"} =>
               MessageKind(calls[k].err) = "decode"
        /\ calls[k].cause # "ok" => calls[k].err # None
        /\ calls[k].err = None => calls[k].result.kind # "nil"

C9_Witness ==
    \E k \in Done :
        /\ calls[k].op = "GetLinksCount"
        /\ calls[k].cause = "decode"
        /\ calls[k].err[1] = "failed to decode count response: "

\* the path each operation is to ask for
ExpectedPath(op) ==
    CASE op = "GetAPIInfo"           -> << "/" >>
      [] op = "GetLinks"             -> << "/","l","i","n","k","s" >>
      [] op = "GetLinksCount"        -> << "/","l","i","n","k","s","/","c","o","u","n","t" >>
      [] op = "GetDistinctDIDs"      ->
            << "/","l","i","n","k","s","/","d","i","s","t","i","n","c","t","-","d","i","d","s" >>
      [] op = "GetDistinctDIDsCount" ->
            << "/","l","i","n","k","s","/","c","o","u","n","t",
               "/","d","i","s","t","i","n","c","t","-","d","i","d","s" >>

\* C10: every request is a GET of the base URL followed by the operation's own
\* path; GetAPIInfo's URL ends there, with no "?", and the URL of a links
\* operation goes on with "?" and a query that holds target.
C10_EachOperationGetsItsOwnPath ==
    \A k \in Sent :
        LET head == client[1].BaseURL \o ExpectedPath(calls[k].op)
            rest == After(Req(k).URL, Len(head))
        IN  /\ Req(k).Method = "GET"
            /\ StartsWith(Req(k).URL, head)
            /\ calls[k].op = "GetAPIInfo" => rest = << >>
            /\ calls[k].op \in LinksOps =>
                  /\ Len(rest) > 1
                  /\ Head(rest) = "?"
                  /\ KeyTarget \in KeysOf(ParseQuery(Tail(rest)))

C10_Witness ==
    \E k \in Sent :
        /\ calls[k].op = "GetAPIInfo"
        /\ Req(k).URL = DefaultBaseURL \o << "/" >>
        /\ ~HasQueryMark(Req(k).URL)

C10_WitnessLinks ==
    \E k \in Sent :
        /\ calls[k].op = "GetDistinctDIDsCount"
        /\ StartsWith(Req(k).URL, CustomBaseURL \o PathDistinctDIDsCount \o << "?" >>)

\* C11: once the transport has delivered a response its body is closed
\* exactly once by the time the operation returns, whether the status was
\* refused, the decoder failed or the decoder succeeded, and it is not closed
\* while the decoder still reads it; a call that failed validation or whose
\* transport failed has no body and closes none.
C11_BodyClosedExactlyOnce ==
    \A k \in Active :
        /\ (calls[k].pc = "done" /\ calls[k].resp # None) => calls[k].closes = 1
        /\ calls[k].pc = "decoding" => calls[k].closes = 0
        /\ calls[k].resp = None => calls[k].closes = 0

C11_Witness ==
    \E k \in Done :
        /\ calls[k].resp # None
        /\ Resp(k).StatusCode = 404
        /\ ~calls[k].fed
        /\ calls[k].closes = 1

C11_WitnessDecodeFailure ==
    \E k \in Done :
        /\ calls[k].cause = "decode"
        /\ calls[k].closes = 1

C11_WitnessSuccess ==
    \E k \in Done :
        /\ calls[k].cause = "ok"
        /\ calls[k].closes = 1

\* the call passed validation and its URL can be made into a request
CanBeSent(k) ==
    /\ calls[k].op = "GetAPIInfo" \/ P(k).Target # << >>
    /\ Head(client[1].BaseURL) # ":"

\* within a call the transport is invoked at most once, exactly once when the
\* call passed validation and the request could be built, and never otherwise
SentAtMostOnce ==
    \A k \in Active :
        /\ calls[k].sends <= 1
        /\ CanBeSent(k) <=> calls[k].sends = 1

\* a call that has its outcome is not sent again: it only returns to its caller
NoResend ==
    \A k \in Callers :
        calls[k].pc = "done" =>
            \/ calls'[k] = calls[k]
            \/ calls'[k].pc = "idle"

\* C12: no operation retries: each call invokes the transport at most once,
\* exactly once when validation passes and the request can be built, and a
\* transport, status or decode failure of that attempt is returned with no
\* further request.
C12_NoRetry == []SentAtMostOnce /\ [][NoResend]_vars

C12_Witness ==
    \E k \in Done :
        /\ calls[k].cause = "transport"
        /\ calls[k].sends = 1
        /\ calls[k].err[1] = "failed to make request: "

\* the User-Agent the constructor resolved, from its arguments and the
\* environment as it was then
ResolvedUserAgent ==
    IF built[1].ctor = "NewClientWithUserAgent" THEN built[1].userAgent
    ELSE IF built[1].env.set /\ built[1].env.val # "" THEN built[1].env.val
    ELSE "constellation-go/1.0.0"

\* the client holds what its constructor gave it
ClientAsBuilt ==
    client # None =>
        /\ client[1].BaseURL =
              IF built[1].ctor = "NewClientWithConfig" THEN built[1].baseURL
              ELSE DefaultBaseURL
        /\ client[1].HTTPClient.Timeout =
              IF built[1].ctor = "NewClientWithConfig" THEN built[1].timeout ELSE 30
        /\ client[1].UserAgent = ResolvedUserAgent

\* no step changes a constructed client
ClientKept == client # None => (client' = client /\ built' = built)

\* a call that begins carries nothing over from the call before it: no
\* response, no body, nothing closed, and at most its own one request
FreshStart ==
    \A k \in Callers :
        (calls[k].pc = "idle" /\ calls'[k].pc # "idle") =>
            /\ calls'[k].resp = None
            /\ calls'[k].body = None
            /\ calls'[k].closes = 0
            /\ ~calls'[k].fed
            /\ calls'[k].sends <= 1
            /\ calls'[k].pc = "done" => calls'[k].cause \in {"validation", "create"}
            /\ calls'[k].pc # "done" => calls'[k].err = None

\* C13: no operation changes the client: after any calls, however they ended,
\* BaseURL, UserAgent and the timeout are what the constructor set, and a call
\* that begins starts from nothing but the client and its own parameters.
C13_ClientUnchangedByCalls ==
    []ClientAsBuilt /\ [][ClientKept /\ FreshStart]_vars

C13_Witness ==
    \E k \in Done :
        /\ calls[k].cause = "timeout"
        /\ built[1].ctor = "NewClientWithConfig"
        /\ client[1].HTTPClient.Timeout = built[1].timeout
        /\ client[1].BaseURL = built[1].baseURL

\* the keys an operation is to send for its parameters
ExpectedKeys(op, params) ==
    IF op = "GetLinksCount"
    THEN PagedKeys(params) \ {KeyLimit, KeyCursor}
    ELSE PagedKeys(params)

\* the request of call k is made of the client's configuration and the call's
\* own operation and parameters
OwnRequest(k) ==
    LET head == client[1].BaseURL \o ExpectedPath(calls[k].op)
        q    == ParseQuery(QueryOf(Req(k).URL))
    IN  /\ StartsWith(Req(k).URL, head)
        /\ Req(k).Header.UserAgent = client[1].UserAgent
        /\ calls[k].op = "GetAPIInfo" => Req(k).URL = head
        /\ calls[k].op \in LinksOps =>
              /\ KeysOf(q) = ExpectedKeys(calls[k].op, P(k))
              /\ Len(q) = Cardinality(KeysOf(q))
              /\ ValueOf(q, KeyTarget) = P(k).Target
              /\ P(k).Collection # << >> => ValueOf(q, KeyCollection) = P(k).Collection
              /\ KeyLimit \in KeysOf(q) => ParseUint(ValueOf(q, KeyLimit), 0) = P(k).Limit

\* the results of call k are those the operation gives, run alone, for the
\* call's own parameters and the answer this call itself was given
OwnOutcome(k) ==
    LET c == calls[k]
    IN  IF c.op \in LinksOps /\ P(k).Target = << >>
        THEN c.err = << "target parameter is required" >> /\ c.req = None
        ELSE IF c.resp = None
        THEN c.err # None /\ c.err[1] = "failed to make request: "
        ELSE IF Resp(k).StatusCode # 200
        THEN c.err = << "API request failed with status: ", Resp(k).Status >>
        ELSE IF c.body = None \/ ~c.body[1].json
        THEN c.err # None /\ c.err[1] \in DecodePrefixes
        ELSE c.err = None /\ c.result.total = c.body[1].total

CallsKeepToThemselves ==
    /\ \A k \in Sent : OwnRequest(k)
    /\ \A k \in Done : OwnOutcome(k)

\* a step of one call writes nothing another call or the client holds
OneCallPerStep ==
    /\ \A j \in ConcCallers : \A k \in ConcCallers \ {j} :
          calls'[j] = calls[j] \/ calls'[k] = calls[k]
    /\ client' = client
    /\ env' = env

\* C14: with two calls under way on one client at the same time, in every
\* interleaving each request is made of the call's own parameters and the
\* client's configuration, each step writes one call's own state only, and
\* each call returns what it would return alone for the answer it was given.
C14_ConcurrentCallsIndependent ==
    []CallsKeepToThemselves /\ [][OneCallPerStep]_vars

C14_Witness ==
    /\ DOMAIN calls = ConcCallers
    /\ calls[1].pc = "done"
    /\ calls[1].op = "GetLinks"
    /\ calls[1].cause = "ok"
    /\ calls[1].result.total = 12
    /\ calls[2].pc = "decoding"
    /\ calls[2].op = "GetDistinctDIDsCount"
    /\ P(1) # P(2)

\* C15: every request carries Accept: application/json and the User-Agent
\* resolved when the client was constructed; setting, changing or unsetting
\* the variable afterwards does not change what the client sends.
C15_HeadersFixedAtConstruction ==
    \A k \in Sent :
        /\ Req(k).Header.Accept = "application/json"
        /\ Req(k).Header.UserAgent = ResolvedUserAgent

C15_Witness ==
    \E k \in Sent :
        /\ built[1].ctor = "NewClient"
        /\ ~built[1].env.set
        /\ env.set
        /\ env.val = "my-custom-app/2.0.0"
        /\ calls[k].pc = "inflight"
        /\ Req(k).Header.UserAgent = "constellation-go/1.0.0"

C15_WitnessUnset ==
    \E k \in Sent :
        /\ built[1].ctor = "NewClientWithConfig"
        /\ built[1].env.set
        /\ built[1].env.val = "my-custom-app/2.0.0"
        /\ ~env.set
        /\ Req(k).Header.UserAgent = "my-custom-app/2.0.0"

\* C16: GetAPIInfo, GetLinks, GetLinksCount and GetDistinctDIDs return a
\* result with a nil error or no result with an error, never both or neither;
\* GetDistinctDIDsCount returns -1 with every error and the decoded total with
\* a nil error only.
C16_ResultXorError ==
    \A k \in Done :
        /\ calls[k].op # "GetDistinctDIDsCount" =>
              \/ calls[k].result.kind = "ptr" /\ calls[k].err = None
              \/ calls[k].result.kind = "nil" /\ calls[k].err # None
        /\ calls[k].op = "GetDistinctDIDsCount" =>
              /\ calls[k].result.kind = "int"
              /\ calls[k].err # None => calls[k].result.total = 0 - 1
              /\ calls[k].err = None =>
                    /\ calls[k].body # None
                    /\ calls[k].body[1].json
                    /\ calls[k].result.total = calls[k].body[1].total
        /\ calls[k].err = None <=> calls[k].cause = "ok"

C16_Witness ==
    \E k \in Done :
        /\ calls[k].op = "GetDistinctDIDsCount"
        /\ calls[k].cause = "decode"
        /\ calls[k].result = [kind |-> "int", total |-> 0 - 1]

C16_WitnessTotal ==
    \E k \in Done :
        /\ calls[k].op = "GetDistinctDIDsCount"
        /\ calls[k].err = None
        /\ calls[k].result.total = 12

====
